---- MODULE Spec2Model ----
(***************************************************************************)
(* Melody: the note-sequencing, timing and highlight state machine of the  *)
(* two browser front ends of the repository.                               *)
(*                                                                         *)
(*   "enhanced"  src/unnamed/part_000   (PianoLearningApp, tempo, keyboard *)
(*                                       stepping, progress, two hands)    *)
(*   "legacy"    src/frontend/script.js (PianoLearningApp, demo data)      *)
(*                                                                         *)
(* A page runs exactly one of the two scripts; `app` says which.  Both     *)
(* scripts keep the same fields (notes, currentNoteIndex, isPlaying), so   *)
(* they share the variables below.                                         *)
(*                                                                         *)
(* JavaScript is single threaded: every handler (click, keydown, timeout   *)
(* callback, the continuation of an await) runs to completion, so each is  *)
(* one action.  Handlers are written as operators from a state record to a *)
(* state record, composed exactly as the methods call each other.          *)
(*                                                                         *)
(* Units: times are integer milliseconds, playbackSpeed is in percent      *)
(* (1.0 = 100).  Array index i of the source is index i+1 here.            *)
(***************************************************************************)
EXTENDS Integers, Sequences, FiniteSets, TLC

VARIABLES
    app,               \* which script the page runs
    notes,             \* this.notes
    handPositions,     \* this.handPositions (enhanced)
    currentNoteIndex,  \* this.currentNoteIndex
    isPlaying,         \* this.isPlaying
    playbackSpeed,     \* this.playbackSpeed, percent (enhanced)
    playbackTimer,     \* this.playbackTimer: "null" or "set" (a timeout id)
    timers,            \* the browser's pending timeouts armed by playNextNote
    inflight,          \* number of loadMIDI calls awaiting their response
    loads,             \* history: the requests issued, in order, and their answers
    activeKeys,        \* data-midi of the piano keys carrying class "active"
    shownIndicators,   \* <<midi, text>> of finger indicators carrying "show"
    activeFingers,     \* <<hand, finger>> of the finger glyphs marked active
    readout,           \* the note in the textual readout, or NoneNote
    progress,          \* progress bar width, progress text, notes played
    notification,      \* what the most recent handler passed to showNotification
    lastOp,            \* history: which operation ran last, and its branch
    session,           \* history: "running" while a playback runs undisturbed
    clock              \* history: stopwatch of the end-to-end scenario, or Off

vars == <<app, notes, handPositions, currentNoteIndex, isPlaying, playbackSpeed,
          playbackTimer, timers, inflight, loads, activeKeys, shownIndicators,
          activeFingers, readout, progress, notification, lastOp, session, clock>>

(***************************************************************************)
(* Bounds of the model                                                     *)
(***************************************************************************)
\* pending timeouts the browser may hold at once (only legacy can exceed one)
MaxTimers == 3
\* loadMIDI calls that may be awaiting a response at once
MaxInflight == 2
\* loadMIDI requests whose order of issue is followed
MaxLoads == 2
\* the largest MIDI number assignFingerToNote is applied to
MaxMidi == 127

(***************************************************************************)
(* Program constants                                                       *)
(***************************************************************************)
\* Math.max(delay, 100)
MinDelay == 100
\* keyboard built by createPianoKeys: octaves 3..5, C3 = 48 .. B5 = 83
FirstKey == 48
LastKey == 83
\* legacy keyboard: white keys carry data-midi 60 + index, index 0..6
LegacyFirstKey == 60
LegacyLastKey == 66

\* the stopwatch is not running
Off == 0 - 1

Max(a, b) == IF a >= b THEN a ELSE b
Min(a, b) == IF a <= b THEN a ELSE b

(***************************************************************************)
(* Note events.  finger 0 stands for a note that carries no finger.        *)
(***************************************************************************)
Note(m, o, d, f, h) == [midi |-> m, offset |-> o, duration |-> d, finger |-> f, hand |-> h]

NoneNote == [midi |-> 0, offset |-> 0, duration |-> 0, finger |-> 0, hand |-> "none"]

\* loadSampleData: the C major scale of the legacy script, one second per note.
\* The end-to-end scenario places its notes one second apart.
SampleData ==
    << Note(60, 0,    1000, 1, "right"),
       Note(62, 1000, 1000, 2, "right"),
       Note(64, 2000, 1000, 3, "right"),
       Note(65, 3000, 1000, 1, "right"),
       Note(67, 4000, 1000, 2, "right"),
       Note(69, 5000, 1000, 3, "right"),
       Note(71, 6000, 1000, 4, "right"),
       Note(72, 7000, 1000, 5, "right") >>

\* A short piece for the left hand: a key outside the keyboard, a note without
\* a finger, offsets that go backwards, 50 ms apart, and a zero duration.
OddPiece ==
    << Note(36, 1000, 500, 5, "left"),
       Note(62, 0,    500, 0, "left"),
       Note(64, 50,   0,   3, "right") >>

EmptyPiece == << >>

Pieces == {SampleData, OddPiece, EmptyPiece}

\* What the backend may answer.  kind: "ok" a complete body; "nodifficulty" a
\* 200 body without the difficulty object; "http" a non-2xx status; "network"
\* a rejected fetch.
HandsOf(piece) == [i \in 1..Len(piece) |-> piece[i].hand]

Body(k, piece) == [kind |-> k, notes |-> piece, hand_positions |-> HandsOf(piece)]

Responses ==
    {Body(k, p) : k \in {"ok", "nodifficulty"}, p \in Pieces} \cup
    {Body(k, EmptyPiece) : k \in {"http", "network"}}

\* tempo slider values, percent (the slider spans 10% .. 200%)
Speeds == {50, 100, 200}

\* how far one Tick may move the time at most, ms
TickSteps == {500}

KeyCodes == {"Space", "ArrowRight", "ArrowLeft", "KeyR"}

(***************************************************************************)
(* The program state as one record, so that a method is an operator from   *)
(* state to state and methods compose as in the source.                    *)
(***************************************************************************)
State ==
    [app |-> app, notes |-> notes, handPositions |-> handPositions,
     currentNoteIndex |-> currentNoteIndex, isPlaying |-> isPlaying,
     playbackSpeed |-> playbackSpeed, playbackTimer |-> playbackTimer,
     timers |-> timers, activeKeys |-> activeKeys,
     shownIndicators |-> shownIndicators, activeFingers |-> activeFingers,
     readout |-> readout, progress |-> progress, notification |-> "none"]

Commit(s) ==
    /\ app' = s.app
    /\ notes' = s.notes
    /\ handPositions' = s.handPositions
    /\ currentNoteIndex' = s.currentNoteIndex
    /\ isPlaying' = s.isPlaying
    /\ playbackSpeed' = s.playbackSpeed
    /\ playbackTimer' = s.playbackTimer
    /\ timers' = s.timers
    /\ activeKeys' = s.activeKeys
    /\ shownIndicators' = s.shownIndicators
    /\ activeFingers' = s.activeFingers
    /\ readout' = s.readout
    /\ progress' = s.progress
    /\ notification' = s.notification

\* notes[i] of the source, i counted from 0
At(seq, i) == seq[i + 1]

(***************************************************************************)
(* Timeouts.  setTimeout returns a fresh id every time, so the only        *)
(* timeout the program can ever name is the one whose id it stored last:   *)
(* `handle` marks the pending timeout playbackTimer refers to.  `preLoad`  *)
(* is history: the timeout was armed before a load that has since          *)
(* replaced the sequence.                                                  *)
(***************************************************************************)
Timer(ms, h) == [remaining |-> ms, handle |-> h, preLoad |-> FALSE]

RemoveAt(seq, i) == SubSeq(seq, 1, i - 1) \o SubSeq(seq, i + 1, Len(seq))

\* clearTimeout(id): the timeout with that id, when still pending, is dropped
clearTimeout(ts) == SelectSeq(ts, LAMBDA t : ~t.handle)

\* setTimeout(cb, ms) whose result is stored in playbackTimer
setTimeoutStored(ts, ms) ==
    Append([i \in 1..Len(ts) |-> [ts[i] EXCEPT !.handle = FALSE]], Timer(ms, TRUE))

\* setTimeout(cb, ms) whose result is dropped
setTimeoutDropped(ts, ms) == Append(ts, Timer(ms, FALSE))

(***************************************************************************)
(* Enhanced app: highlight synchronizer and progress reporter              *)
(***************************************************************************)
KeyExists(s, midi) ==
    IF s.app = "enhanced" THEN midi \in FirstKey..LastKey
    ELSE midi \in LegacyFirstKey..LegacyLastKey

clearKeyHighlights(s) == [s EXCEPT !.activeKeys = {}, !.shownIndicators = {}]

clearFingerHighlights(s) == [s EXCEPT !.activeFingers = {}]

clearAllHighlights(s) == clearFingerHighlights(clearKeyHighlights(s))

displayCurrentNote(s, note) == [s EXCEPT !.readout = note]

\* mutant: the previous key highlight is not cleared
highlightKey_NoClear(s, note) ==
    IF KeyExists(s, note.midi)
    THEN [s EXCEPT !.activeKeys = @ \cup {note.midi},
                   !.shownIndicators = @ \cup {<<note.midi, note.finger>>}]
    ELSE s

\* mutant: classList.toggle instead of clear-then-add
highlightKey_Toggle(s, note) ==
    IF KeyExists(s, note.midi)
    THEN [s EXCEPT !.activeKeys =
                       IF note.midi \in @ THEN @ \ {note.midi} ELSE @ \cup {note.midi},
                   !.shownIndicators = {<<note.midi, note.finger>>}]
    ELSE clearKeyHighlights(s)

highlightKey(s, note) ==
    LET c == clearKeyHighlights(s)
    IN  IF KeyExists(c, note.midi)
        THEN [c EXCEPT !.activeKeys = @ \cup {note.midi},
                       !.shownIndicators = @ \cup {<<note.midi, note.finger>>}]
        ELSE c

\* '#' + handSvg + ' [data-finger="' + note.finger + '"]': glyphs 1..5 exist
highlightFinger(s, note) ==
    LET c == clearFingerHighlights(s)
        handSvg == IF note.hand = "right" THEN "right" ELSE "left"
    IN  IF note.finger \in 1..5
        THEN [c EXCEPT !.activeFingers = @ \cup {<<handSvg, note.finger>>}]
        ELSE c

\* Math.round of a non-negative quotient a / b
Round(a, b) == (2 * a + b) \div (2 * b)

\* width in hundredths of a percent, text in whole percent, notes played
ProgressOf(idx, len) ==
    [fill |-> IF len > 0 THEN (idx * 10000) \div len ELSE 0,
     text |-> IF len > 0 THEN Round(idx * 100, len) ELSE 0,
     played |-> idx]

updateProgress(s) ==
    [s EXCEPT !.progress = ProgressOf(s.currentNoteIndex, Len(s.notes))]

(***************************************************************************)
(* Enhanced app: playback scheduler                                        *)
(***************************************************************************)
\* mutant: pause also steps the cursor back to replay the interrupted note
pausePlayback_Rewinds(s) ==
    [s EXCEPT !.isPlaying = FALSE,
              !.currentNoteIndex = IF @ > 0 THEN @ - 1 ELSE @,
              !.timers = IF s.playbackTimer # "null" THEN clearTimeout(@) ELSE @]

\* mutant: pause forgets clearTimeout
pausePlayback_NoClear(s) == [s EXCEPT !.isPlaying = FALSE]

pausePlayback(s) ==
    [s EXCEPT !.isPlaying = FALSE,
              !.timers = IF s.playbackTimer # "null" THEN clearTimeout(@) ELSE @]

\* mutant: the delay is not divided by the playback speed
DelayOf_IgnoresSpeed(s, idx) ==
    LET note == At(s.notes, idx)
    IN  IF idx + 1 < Len(s.notes)
        THEN At(s.notes, idx + 1).offset - note.offset
        ELSE note.duration

\* mutant: the next note's offset is taken as the delay
DelayOf_Absolute(s, idx) ==
    LET note == At(s.notes, idx)
    IN  IF idx + 1 < Len(s.notes)
        THEN (At(s.notes, idx + 1).offset * 100) \div s.playbackSpeed
        ELSE (note.duration * 100) \div s.playbackSpeed

\* (next.offset - note.offset) * 1000 / speed, or duration * 1000 / speed
DelayOf(s, idx) ==
    LET note == At(s.notes, idx)
    IN  IF idx + 1 < Len(s.notes)
        THEN ((At(s.notes, idx + 1).offset - note.offset) * 100) \div s.playbackSpeed
        ELSE (note.duration * 100) \div s.playbackSpeed

\* mutant: the computed delay is passed to setTimeout without the 100 ms floor
playNextNote_NoFloor(s) ==
    IF ~s.isPlaying \/ s.currentNoteIndex >= Len(s.notes)
    THEN [pausePlayback(s) EXCEPT !.notification = "Playback completed!"]
    ELSE LET note == At(s.notes, s.currentNoteIndex)
             shown == updateProgress(highlightFinger(highlightKey(
                          displayCurrentNote(s, note), note), note))
             delay == DelayOf(shown, shown.currentNoteIndex)
         IN  [shown EXCEPT !.currentNoteIndex = @ + 1,
                           !.playbackTimer = "set",
                           !.timers = setTimeoutStored(@, Max(delay, 0))]

\* mutant: the end of the sequence is announced without pausing
playNextNote_NoPause(s) ==
    IF ~s.isPlaying \/ s.currentNoteIndex >= Len(s.notes)
    THEN [s EXCEPT !.notification = "Playback completed!"]
    ELSE LET note == At(s.notes, s.currentNoteIndex)
             shown == updateProgress(highlightFinger(highlightKey(
                          displayCurrentNote(s, note), note), note))
             delay == DelayOf(shown, shown.currentNoteIndex)
         IN  [shown EXCEPT !.currentNoteIndex = @ + 1,
                           !.playbackTimer = "set",
                           !.timers = setTimeoutStored(@, Max(delay, MinDelay))]

playNextNote(s) ==
    IF ~s.isPlaying \/ s.currentNoteIndex >= Len(s.notes)
    THEN [pausePlayback(s) EXCEPT !.notification = "Playback completed!"]
    ELSE LET note == At(s.notes, s.currentNoteIndex)
             shown == updateProgress(highlightFinger(highlightKey(
                          displayCurrentNote(s, note), note), note))
             delay == DelayOf(shown, shown.currentNoteIndex)
         IN  [shown EXCEPT !.currentNoteIndex = @ + 1,
                           !.playbackTimer = "set",
                           !.timers = setTimeoutStored(@, Max(delay, MinDelay))]

\* mutant: isPlaying is set before the empty-sequence check
startPlayback_SetsFirst(s) ==
    LET p == [s EXCEPT !.isPlaying = TRUE]
    IN  IF Len(s.notes) = 0
        THEN [p EXCEPT !.notification = "Please load a MIDI file first"]
        ELSE playNextNote(p)

startPlayback(s) ==
    IF Len(s.notes) = 0
    THEN [s EXCEPT !.notification = "Please load a MIDI file first"]
    ELSE playNextNote([s EXCEPT !.isPlaying = TRUE])

togglePlayback(s) == IF s.isPlaying THEN pausePlayback(s) ELSE startPlayback(s)

\* mutant: reset leaves the highlights in place
resetPlayback_KeepsHighlights(s) ==
    LET p == pausePlayback(s)
        z == [p EXCEPT !.currentNoteIndex = 0]
    IN  [updateProgress(z) EXCEPT !.readout = NoneNote]

resetPlayback(s) ==
    LET p == pausePlayback(s)
        z == [p EXCEPT !.currentNoteIndex = 0]
    IN  [updateProgress(clearAllHighlights(z)) EXCEPT !.readout = NoneNote]

\* mutant: a tempo change rescales the pending timeout
setTempo_Rescales(s, speed) ==
    [s EXCEPT !.playbackSpeed = speed,
              !.timers = [i \in 1..Len(@) |->
                  [@[i] EXCEPT !.remaining = (@ * s.playbackSpeed) \div speed]]]

setTempo(s, speed) == [s EXCEPT !.playbackSpeed = speed]

\* mutant: ArrowLeft moves the cursor and leaves the readout alone
stepBack_NoDisplay(s) ==
    IF ~s.isPlaying /\ s.currentNoteIndex > 0
    THEN updateProgress([s EXCEPT !.currentNoteIndex = @ - 1])
    ELSE s

\* mutant: ArrowRight steps although playback is running
stepForward_WhilePlaying(s) ==
    IF s.currentNoteIndex < Len(s.notes)
    THEN LET m == [s EXCEPT !.currentNoteIndex = @ + 1]
         IN  updateProgress(displayCurrentNote(m, At(m.notes, m.currentNoteIndex - 1)))
    ELSE s

\* case 'ArrowRight'
stepForward(s) ==
    IF ~s.isPlaying /\ s.currentNoteIndex < Len(s.notes)
    THEN LET m == [s EXCEPT !.currentNoteIndex = @ + 1]
         IN  updateProgress(displayCurrentNote(m, At(m.notes, m.currentNoteIndex - 1)))
    ELSE s

\* case 'ArrowLeft'.  this.notes[i] beyond the end is undefined and
\* displayCurrentNote(undefined) throws: the decrement stays, nothing else runs.
stepBack(s) ==
    IF ~s.isPlaying /\ s.currentNoteIndex > 0
    THEN LET m == [s EXCEPT !.currentNoteIndex = @ - 1]
         IN  IF m.currentNoteIndex < Len(m.notes)
             THEN updateProgress(displayCurrentNote(m, At(m.notes, m.currentNoteIndex)))
             ELSE m
    ELSE s

handleKeyboard(s, code) ==
    CASE code = "Space"      -> togglePlayback(s)
      [] code = "ArrowRight" -> stepForward(s)
      [] code = "ArrowLeft"  -> stepBack(s)
      [] code = "KeyR"       -> resetPlayback(s)

\* pianoKeys.innerHTML = '' and fresh key elements: no key carries a class
createPianoKeys(s) == [s EXCEPT !.activeKeys = {}, !.shownIndicators = {}]

\* loadMIDI from the point where the response has arrived
loadMIDI(s, data) ==
    IF data.kind \in {"network", "http"}
    THEN [s EXCEPT !.notification = "Error loading MIDI file"]
    ELSE LET got == [s EXCEPT !.notes = data.notes,
                              !.handPositions = data.hand_positions]
         IN  IF data.kind = "nodifficulty"
             THEN [got EXCEPT !.notification = "Error loading MIDI file"]
             ELSE [got EXCEPT !.notification = "MIDI file loaded successfully!"]

(***************************************************************************)
(* Legacy app (src/frontend/script.js).  One hand diagram; finger glyphs   *)
(* are found by id, keys by data-midi; setTimeout's result is dropped and  *)
(* animationId stays null, so pause() cancels nothing.                     *)
(***************************************************************************)
\* finger ids of the legacy hand diagram, numbered as the enhanced glyphs:
\* thumb 1, index 2, middle 3, ring 4, pinky 5

\* mutant: the comparisons are strict
assignFingerToNote_Strict(note) ==
    LET noteInOctave == note.midi % 12
    IN  IF noteInOctave < 1 THEN 1
        ELSE IF noteInOctave < 3 THEN 2
        ELSE IF noteInOctave < 5 THEN 3
        ELSE IF noteInOctave < 7 THEN 4
        ELSE 5

assignFingerToNote(note) ==
    LET noteInOctave == note.midi % 12
    IN  IF noteInOctave <= 1 THEN 1
        ELSE IF noteInOctave <= 3 THEN 2
        ELSE IF noteInOctave <= 5 THEN 3
        ELSE IF noteInOctave <= 7 THEN 4
        ELSE IF noteInOctave <= 9 THEN 5
        ELSE 5

Legacy_clearHighlights(s) == [s EXCEPT !.activeKeys = {}, !.activeFingers = {}]

\* note = undefined (an index past the end): the template literal throws
\* right after clearHighlights has run.
Legacy_showHandPosition(s, idx) ==
    LET c == Legacy_clearHighlights(s)
    IN  IF idx < Len(s.notes)
        THEN LET note == At(s.notes, idx)
             IN  [c EXCEPT
                    !.activeKeys =
                        IF KeyExists(c, note.midi) THEN @ \cup {note.midi} ELSE @,
                    !.activeFingers =
                        IF note.finger \in 1..5
                        THEN @ \cup {<<"hand-group", note.finger>>} ELSE @,
                    !.readout = note]
        ELSE c

Legacy_updateInfo(s) ==
    IF Len(s.notes) > 0 THEN Legacy_showHandPosition(s, s.currentNoteIndex) ELSE s

Legacy_loadSampleData(s) == Legacy_updateInfo([s EXCEPT !.notes = SampleData])

\* this.animationId is never assigned: nothing is cancelled
Legacy_pause(s) == [s EXCEPT !.isPlaying = FALSE]

Legacy_playNextNote(s) ==
    IF ~s.isPlaying \/ s.currentNoteIndex >= Len(s.notes)
    THEN Legacy_pause(s)
    ELSE LET shown == Legacy_showHandPosition(s, s.currentNoteIndex)
         IN  [shown EXCEPT !.timers =
                 setTimeoutDropped(@, At(s.notes, s.currentNoteIndex).duration)]

\* the timeout callback: increment, then playNextNote
Legacy_timeout(s) == Legacy_playNextNote([s EXCEPT !.currentNoteIndex = @ + 1])

Legacy_play(s) ==
    IF Len(s.notes) = 0 THEN s
    ELSE Legacy_playNextNote([s EXCEPT !.isPlaying = TRUE])

Legacy_togglePlay(s) == IF s.isPlaying THEN Legacy_pause(s) ELSE Legacy_play(s)

Legacy_reset(s) ==
    Legacy_updateInfo(Legacy_clearHighlights(
        Legacy_pause([s EXCEPT !.currentNoteIndex = 0])))

\* loadMIDI from the point where the response has arrived
Legacy_loadMIDI(s, data) ==
    CASE data.kind \in {"network", "http"} -> Legacy_loadSampleData(s)
      [] data.kind = "failed" -> s
      [] OTHER -> Legacy_updateInfo([s EXCEPT !.notes = data.notes,
                                              !.currentNoteIndex = 0])

(***************************************************************************)
(* History variables                                                       *)
(***************************************************************************)
\* which branch togglePlayback / togglePlay takes from state s
ToggleOp(s) ==
    IF s.isPlaying THEN "pause"
    ELSE IF Len(s.notes) = 0 THEN "playEmpty"
    ELSE IF s.currentNoteIndex >= Len(s.notes) THEN "playAtEnd"
    ELSE "play"

KeyOp(s, code) ==
    CASE code = "Space" -> ToggleOp(s)
      [] code = "KeyR" -> "reset"
      [] code = "ArrowRight" ->
            IF ~s.isPlaying /\ s.currentNoteIndex < Len(s.notes)
            THEN "stepForward" ELSE "stepNoop"
      [] code = "ArrowLeft" ->
            IF ~s.isPlaying /\ s.currentNoteIndex > 0
            THEN (IF s.currentNoteIndex - 1 < Len(s.notes)
                  THEN "stepBack" ELSE "stepBackThrow")
            ELSE "stepNoop"

LoadOp(data) ==
    CASE data.kind = "ok" -> "loadOk"
      [] data.kind = "nodifficulty" -> "loadThrow"
      [] OTHER -> "loadFail"

KeepsSession == {"timerAdvance", "tempo", "stepNoop", "loadClick", "resize"}

\* op is the operation that runs on pre-state s
Hist(s, op) ==
    /\ lastOp' = op
    /\ session' =
          CASE op = "play" -> "running"
            [] op \in KeepsSession -> session
            [] op = "timerEnd" /\ session = "running" -> "completed"
            [] OTHER -> "none"
    /\ clock' =
          CASE op = "play" /\ s.app = "enhanced" /\ s.currentNoteIndex = 0
                  /\ s.notes = SampleData /\ s.playbackSpeed = 100 -> 0
            [] op \in {"timerAdvance", "loadClick"} -> clock
            [] OTHER -> Off

\* a handler that ends in state s having run as op
Do(s, op) ==
    /\ Len(s.timers) <= MaxTimers
    /\ Commit(s)
    /\ Hist(State, op)

(***************************************************************************)
(* Initial state: the constructor has run                                  *)
(***************************************************************************)
Init ==
    /\ app \in {"enhanced", "legacy"}
    /\ notes = IF app = "enhanced" THEN << >> ELSE SampleData
    /\ handPositions = << >>
    /\ currentNoteIndex = 0
    /\ isPlaying = FALSE
    /\ playbackSpeed = 100
    /\ playbackTimer = "null"
    /\ timers = << >>
    /\ inflight = 0
    /\ loads = << >>
    /\ activeKeys = IF app = "enhanced" THEN {} ELSE {60}
    /\ shownIndicators = {}
    /\ activeFingers = IF app = "enhanced" THEN {} ELSE {<<"hand-group", 1>>}
    /\ readout = IF app = "enhanced" THEN NoneNote ELSE SampleData[1]
    /\ progress = ProgressOf(0, 0)
    /\ notification = "none"
    /\ lastOp = "init"
    /\ session = "none"
    /\ clock = Off

(***************************************************************************)
(* Events                                                                  *)
(***************************************************************************)
\* click on #play-pause
ClickPlayPause ==
    /\ UNCHANGED <<inflight, loads>>
    /\ IF app = "enhanced"
       THEN Do(togglePlayback(State), ToggleOp(State))
       ELSE Do(Legacy_togglePlay(State), ToggleOp(State))

\* click on #reset
ClickReset ==
    /\ UNCHANGED <<inflight, loads>>
    /\ IF app = "enhanced"
       THEN Do(resetPlayback(State), "reset")
       ELSE Do(Legacy_reset(State), "reset")

\* keydown (enhanced only)
KeyDown ==
    /\ app = "enhanced"
    /\ UNCHANGED <<inflight, loads>>
    /\ \E code \in KeyCodes : Do(handleKeyboard(State, code), KeyOp(State, code))

\* input on #tempo-slider (enhanced only)
TempoInput ==
    /\ app = "enhanced"
    /\ UNCHANGED <<inflight, loads>>
    /\ \E speed \in Speeds : Do(setTempo(State, speed), "tempo")

\* the debounced resize callback rebuilds the keyboard (enhanced only)
Resize ==
    /\ app = "enhanced"
    /\ UNCHANGED <<inflight, loads>>
    /\ Do(createPianoKeys(State), "resize")

\* click on #load-midi: loadMIDI runs up to its first await
ClickLoad ==
    /\ inflight < MaxInflight
    /\ inflight' = inflight + 1
    /\ loads' = loads
    /\ Do([State EXCEPT !.notification = notification], "loadClick")

MarkPreLoad(ts) == [i \in 1..Len(ts) |-> [ts[i] EXCEPT !.preLoad = TRUE]]

\* the response of one pending loadMIDI arrives and the function resumes
LoadResponse ==
    /\ inflight > 0
    /\ inflight' = inflight - 1
    /\ loads' = loads
    /\ IF app = "enhanced"
       THEN \E data \in Responses :
               LET s == loadMIDI(State, data)
               IN  Do(IF data.kind = "ok"
                      THEN [s EXCEPT !.timers = MarkPreLoad(@)] ELSE s,
                      LoadOp(data))
       ELSE \E data \in Responses \cup {Body("failed", EmptyPiece)} :
               LET s == Legacy_loadMIDI(State, data)
               IN  Do(IF data.kind \in {"ok", "nodifficulty"}
                      THEN [s EXCEPT !.timers = MarkPreLoad(@)] ELSE s,
                      IF data.kind \in {"ok", "nodifficulty"} THEN "loadOk" ELSE "loadFail")

\* a pending timeout whose time has come runs its callback
TimerFire ==
    /\ UNCHANGED <<inflight, loads>>
    /\ \E i \in 1..Len(timers) :
          /\ timers[i].remaining = 0
          /\ LET s == [State EXCEPT !.timers = RemoveAt(@, i)]
                 n == IF app = "enhanced" THEN s.currentNoteIndex
                      ELSE s.currentNoteIndex + 1
                 op == IF s.isPlaying /\ n < Len(s.notes)
                       THEN (IF timers[i].preLoad THEN "staleAdvance" ELSE "timerAdvance")
                       ELSE (IF timers[i].preLoad THEN "staleEnd" ELSE "timerEnd")
             IN  IF app = "enhanced"
                 THEN Do(playNextNote(s), op)
                 ELSE Do(Legacy_timeout(s), op)

\* ms until the earliest pending timeout is due
NextDue(ts) ==
    CHOOSE m \in {ts[i].remaining : i \in 1..Len(ts)} :
        \A i \in 1..Len(ts) : m <= ts[i].remaining

\* time passes, never beyond the moment a pending timeout is due
Tick ==
    /\ timers # << >>
    /\ \A i \in 1..Len(timers) : timers[i].remaining > 0
    /\ \E q \in TickSteps :
          LET d == Min(q, NextDue(timers))
          IN
          /\ timers' = [i \in 1..Len(timers) |->
                           [timers[i] EXCEPT !.remaining = @ - d]]
          /\ clock' = IF clock = Off THEN Off ELSE clock + d
    /\ lastOp' = "tick"
    /\ UNCHANGED <<app, notes, handPositions, currentNoteIndex, isPlaying,
                   playbackSpeed, playbackTimer, inflight, loads, activeKeys,
                   shownIndicators, activeFingers, readout, progress,
                   notification, session>>

Next ==
    \/ ClickPlayPause
    \/ ClickReset
    \/ KeyDown
    \/ TempoInput
    \/ Resize
    \/ ClickLoad
    \/ LoadResponse
    \/ TimerFire
    \/ Tick

Spec == Init /\ [][Next]_vars

(***************************************************************************)
(* assignFingerToNote on its own.  No handler calls it, so it is applied   *)
(* here to the second note of a two-note sequence that arrived without a   *)
(* finger, for every MIDI number, either hand and any finger on the note   *)
(* before it.                                                              *)
(***************************************************************************)
FingerInit ==
    /\ app = "legacy"
    /\ \E m \in 0..MaxMidi, h \in {"left", "right"}, f \in 1..5 :
          notes = << Note(60, 0, 1000, f, "right"), Note(m, 1000, 1000, 0, h) >>
    /\ handPositions = << >>
    /\ currentNoteIndex = 0
    /\ isPlaying = FALSE
    /\ playbackSpeed = 100
    /\ playbackTimer = "null"
    /\ timers = << >>
    /\ inflight = 0
    /\ loads = << >>
    /\ activeKeys = {}
    /\ shownIndicators = {}
    /\ activeFingers = {}
    /\ readout = NoneNote
    /\ progress = ProgressOf(0, 0)
    /\ notification = "none"
    /\ lastOp = "init"
    /\ session = "none"
    /\ clock = Off

\* note.finger = this.assignFingerToNote(note) for the note without a finger
AssignFinger ==
    /\ notes[2].finger = 0
    /\ notes' = [notes EXCEPT ![2].finger = assignFingerToNote(notes[2])]
    /\ lastOp' = "assignFinger"
    /\ UNCHANGED <<app, handPositions, currentNoteIndex, isPlaying, playbackSpeed,
                   playbackTimer, timers, inflight, loads, activeKeys,
                   shownIndicators, activeFingers, readout, progress, notification,
                   session, clock>>

FingerNext == AssignFinger

FingerSpec == FingerInit /\ [][FingerNext]_vars

(***************************************************************************)
(* Overlapping loads of the enhanced app, with the requests told apart.    *)
(* Each click on #load-midi issues its own fetch; the responses arrive in  *)
(* any order and each resumes the loadMIDI call that awaits it.  `loads`   *)
(* records, per request in order of issue, whether another request was     *)
(* still awaiting its response when it was issued, and what was answered.  *)
(***************************************************************************)
Request(o) == [done |-> FALSE, overlapped |-> o, kind |-> "pending", notes |-> << >>]

LoadInit == Init /\ app = "enhanced"

\* click on #load-midi: loadMIDI runs up to its first await
IssueLoad ==
    /\ Len(loads) < MaxLoads
    /\ inflight < MaxInflight
    /\ inflight' = inflight + 1
    /\ loads' = Append(loads, Request(\E i \in 1..Len(loads) : ~loads[i].done))
    /\ Do([State EXCEPT !.notification = notification], "loadClick")

\* the response to one of the pending requests arrives; its loadMIDI resumes
AnswerLoad ==
    \E i \in 1..Len(loads), data \in Responses :
        /\ ~loads[i].done
        /\ inflight' = inflight - 1
        /\ loads' = [loads EXCEPT ![i] = [@ EXCEPT !.done = TRUE,
                                                   !.kind = data.kind,
                                                   !.notes = data.notes]]
        /\ LET s == loadMIDI(State, data)
           IN  Do(IF data.kind = "ok"
                  THEN [s EXCEPT !.timers = MarkPreLoad(@)] ELSE s,
                  LoadOp(data))

LoadNext == IssueLoad \/ AnswerLoad

LoadSpec == LoadInit /\ [][LoadNext]_vars

(***************************************************************************)
(* Properties                                                              *)
(***************************************************************************)
Enhanced == app = "enhanced"

Display == <<readout, activeKeys, shownIndicators, activeFingers>>

\* C1: in the enhanced app at most one scheduled advance is outstanding in
\* every reachable state, under any interleaving of toggles, resets, steps,
\* tempo changes, load completions and timer firings.
C1_AtMostOneAdvance == Enhanced => Len(timers) <= 1

\* a playback resumed after a pause: a second advance was armed, one is pending
C1_Witness ==
    /\ Enhanced /\ lastOp = "play" /\ currentNoteIndex > 1 /\ Len(timers) = 1

\* C2: in the enhanced app, whenever loadMIDI completes successfully the
\* resulting state has currentNoteIndex = 0 and isPlaying = FALSE.
C2_LoadResets ==
    (Enhanced /\ lastOp = "loadOk") => (currentNoteIndex = 0 /\ ~isPlaying)

\* C3: in the enhanced app an advance armed before a successful load completed
\* never afterwards fires to render a note or to move the cursor.
C3_StaleAdvanceInert ==
    [][(Enhanced /\ lastOp' \in {"staleAdvance", "staleEnd"})
          => UNCHANGED <<currentNoteIndex, Display>>]_vars

\* C4: in every reachable state of the enhanced app
\* 0 <= currentNoteIndex <= notes.length.
C4_CursorInRange ==
    Enhanced => (0 <= currentNoteIndex /\ currentNoteIndex <= Len(notes))

\* C5: play on an empty sequence never sets isPlaying to true, arms no
\* scheduled advance and leaves the cursor unchanged (both apps).
C5_PlayOnEmpty ==
    [][lastOp' = "playEmpty"
          => (~isPlaying' /\ UNCHANGED <<isPlaying, timers, currentNoteIndex>>)]_vars

\* play was pressed on an empty sequence with the cursor off zero
C5_Witness == lastOp = "playEmpty" /\ Len(notes) = 0 /\ currentNoteIndex > 0

\* C6: in the enhanced app, after pausePlayback returns isPlaying is false and
\* no scheduled advance is outstanding; and while not playing, nothing but a
\* play, a manual step, a reset or a load changes the cursor or renders a note
\* (a rebuilt keyboard may drop the key highlight, it never adds one).
Resumes ==
    {"play", "playAtEnd", "playEmpty", "stepForward", "stepBack",
     "stepBackThrow", "reset", "loadOk", "loadThrow", "loadFail"}

C6_PauseHolds ==
    /\ []((Enhanced /\ lastOp = "pause") => (~isPlaying /\ timers = << >>))
    /\ [][(Enhanced /\ ~isPlaying /\ lastOp' \notin Resumes)
             => /\ UNCHANGED <<currentNoteIndex, readout, activeFingers>>
                /\ activeKeys' \subseteq activeKeys
                /\ shownIndicators' \subseteq shownIndicators]_vars

\* paused in the middle of the sample piece
C6_Witness ==
    /\ Enhanced /\ lastOp = "pause" /\ currentNoteIndex > 0
    /\ currentNoteIndex < Len(notes)

\* C7: in the enhanced app, after resetPlayback: cursor 0, not playing, no
\* scheduled advance outstanding, no key and no finger glyph active, and the
\* displayed progress is 0.
C7_ResetState ==
    (Enhanced /\ lastOp = "reset") =>
        /\ currentNoteIndex = 0
        /\ ~isPlaying
        /\ timers = << >>
        /\ activeKeys = {} /\ shownIndicators = {} /\ activeFingers = {}
        /\ progress = [fill |-> 0, text |-> 0, played |-> 0]

\* a reset of a piece that has been played (a timeout was armed once)
C7_Witness ==
    Enhanced /\ lastOp = "reset" /\ playbackTimer = "set" /\ Len(notes) > 0

\* C8 as claimed: in the enhanced app play at cursor = length > 0 changes
\* nothing and emits no completion signal.
C8_PlayAtEndSilent ==
    [][(Enhanced /\ lastOp' = "playAtEnd" /\ currentNoteIndex = Len(notes))
          => /\ UNCHANGED <<notes, currentNoteIndex, isPlaying, playbackSpeed,
                            timers, Display, progress>>
             /\ notification' = "none"]_vars

\* C8 as amended: play at cursor = length > 0 leaves the playback state as it
\* was (not playing, no note emitted, no advance armed) and shows the
\* "Playback completed!" notification once more.
C8_PlayAtEndNotifies ==
    [][(Enhanced /\ lastOp' = "playAtEnd" /\ currentNoteIndex = Len(notes))
          => /\ ~isPlaying'
             /\ UNCHANGED <<notes, currentNoteIndex, isPlaying, playbackSpeed,
                            timers, Display, progress>>
             /\ notification' = "Playback completed!"]_vars

C8_Witness ==
    /\ Enhanced /\ lastOp = "playAtEnd" /\ Len(notes) > 0
    /\ currentNoteIndex = Len(notes)

\* the advance due now has not fired yet
Due == \E i \in 1..Len(timers) : timers[i].remaining = 0

\* C9 as claimed: 7000 ms after play on the sample piece at speed 1.0 the
\* cursor is 7 and the engine is playing with the 8th note displayed.
C9_SevenSeconds ==
    (Enhanced /\ clock = 7000) =>
        (currentNoteIndex = 7 /\ isPlaying /\ readout = SampleData[8])

\* C9 as amended: 7000 ms after play the engine is still playing; once the
\* advance due at 7000 ms has fired the 8th note is displayed and the cursor
\* is 8; until it fires the 7th note is displayed and the cursor is 7.
C9_SevenSecondsCursor ==
    (Enhanced /\ clock = 7000) =>
        /\ isPlaying
        /\ ~Due => (currentNoteIndex = 8 /\ readout = SampleData[8])
        /\ Due => (currentNoteIndex = 7 /\ readout = SampleData[7])

C9_Witness == Enhanced /\ clock = 7000 /\ ~Due /\ lastOp = "timerAdvance"

\* C10: in the enhanced app an undisturbed playback of a non-empty sequence
\* ends Completed: cursor = length, not playing, no scheduled advance, the
\* completion signal emitted and the reported progress 100.
C10_Completed ==
    (Enhanced /\ lastOp = "timerEnd" /\ session = "completed") =>
        /\ currentNoteIndex = Len(notes)
        /\ ~isPlaying
        /\ timers = << >>
        /\ notification = "Playback completed!"
        /\ progress.text = 100

\* the operations that change the cursor or the sequence
CursorOps ==
    {"play", "timerAdvance", "staleAdvance", "stepForward", "stepBack",
     "reset", "loadOk"}

\* C11: in the enhanced app, after every operation that changes the cursor or
\* the sequence (scheduled advance, step, reset, load) the displayed progress
\* equals cursor / length * 100 (0 when length = 0) and the displayed
\* notes-played count equals the cursor.
C11_ProgressTracksCursor ==
    (Enhanced /\ lastOp \in CursorOps) =>
        /\ progress.played = currentNoteIndex
        /\ progress.fill =
              (IF Len(notes) > 0 THEN (currentNoteIndex * 10000) \div Len(notes) ELSE 0)

\* C12: in the enhanced app, while isPlaying is true the reported progress
\* never decreases from one state to the next.
C12_ProgressMonotone ==
    [][(Enhanced /\ isPlaying /\ isPlaying') => progress'.fill >= progress.fill]_vars

\* the handlers that end by arming a scheduled advance
Arming == {"play", "timerAdvance", "staleAdvance"}

\* offset difference to the next note, or the duration of the last note,
\* of the note just emitted (index cursor - 1), scaled by the speed
RawDelay ==
    LET i == currentNoteIndex
    IN  IF i < Len(notes)
        THEN ((notes[i + 1].offset - notes[i].offset) * 100) \div playbackSpeed
        ELSE (notes[i].duration * 100) \div playbackSpeed

\* C13: the delay armed by a scheduled advance at cursor i with speed s is
\* max(100, (offset[i+1] - offset[i]) * 1000 / s) ms when note i+1 exists and
\* max(100, duration[i] * 1000 / s) ms for the last note; offsets one second
\* apart give 1000 ms at speed 1.0 and 500 ms at speed 2.0.
C13_ArmedDelay ==
    (Enhanced /\ lastOp \in Arming) =>
        /\ Len(timers) = 1
        /\ timers[1].remaining = (IF RawDelay >= 100 THEN RawDelay ELSE 100)
        /\ (notes = SampleData /\ playbackSpeed = 100) => timers[1].remaining = 1000
        /\ (notes = SampleData /\ playbackSpeed = 200) => timers[1].remaining = 500

\* an advance through the sample piece at double speed
C13_Witness ==
    /\ Enhanced /\ lastOp = "timerAdvance" /\ notes = SampleData
    /\ playbackSpeed = 200 /\ currentNoteIndex = 2 /\ timers[1].remaining = 500

\* C14: every scheduled advance armed by the enhanced scheduler has a delay
\* of at least 100 ms, also for decreasing offsets and zero durations: a
\* negative or zero computed delay is armed as 100 ms.
C14_DelayFloor ==
    (Enhanced /\ lastOp \in Arming) =>
        \A i \in 1..Len(timers) :
            /\ timers[i].remaining >= 100
            /\ RawDelay <= 0 => timers[i].remaining = 100

\* armed after a note whose successor has a smaller offset
C14_Witness ==
    /\ Enhanced /\ lastOp \in Arming /\ Len(timers) = 1
    /\ RawDelay < 0 /\ timers[1].remaining = 100

ProgVars ==
    <<notes, handPositions, currentNoteIndex, isPlaying, playbackTimer,
      timers, Display, progress>>

\* C15: setTempo changes only the speed: cursor, isPlaying, the sequence, the
\* highlights and the already armed advance with its firing time stay as
\* they were.
C15_TempoFrame ==
    [][(Enhanced /\ lastOp' = "tempo")
          => (UNCHANGED ProgVars /\ playbackSpeed' \in Speeds)]_vars

\* double speed was chosen while an advance armed at a slower speed is pending
C15_Witness ==
    /\ Enhanced /\ lastOp = "tempo" /\ isPlaying /\ notes = SampleData
    /\ playbackSpeed = 200 /\ Len(timers) = 1 /\ timers[1].remaining > 500

StepOps == {"stepForward", "stepBack", "stepBackThrow", "stepNoop"}

\* C16: manual stepping in the enhanced app: while playing a step changes
\* nothing; while not playing step-forward moves the cursor by +1 only if
\* cursor < length and step-back by -1 only if cursor > 0; a refused step
\* leaves the whole state unchanged.
C16_Stepping ==
    [][(Enhanced /\ lastOp' \in StepOps) =>
          /\ isPlaying => UNCHANGED <<ProgVars, playbackSpeed>>
          /\ currentNoteIndex' - currentNoteIndex \in {0 - 1, 0, 1}
          /\ currentNoteIndex' = currentNoteIndex + 1
                => (~isPlaying /\ currentNoteIndex < Len(notes))
          /\ currentNoteIndex' = currentNoteIndex - 1
                => (~isPlaying /\ currentNoteIndex > 0)
          /\ lastOp' = "stepForward" => currentNoteIndex' = currentNoteIndex + 1
          /\ lastOp' \in {"stepBack", "stepBackThrow"}
                => currentNoteIndex' = currentNoteIndex - 1
          /\ currentNoteIndex' = currentNoteIndex
                => (lastOp' = "stepNoop" /\ UNCHANGED <<ProgVars, playbackSpeed>>)
      ]_vars

\* a step-forward refused at the end of a loaded piece
C16_Witness ==
    /\ Enhanced /\ lastOp = "stepNoop" /\ ~isPlaying
    /\ Len(notes) > 0 /\ currentNoteIndex = Len(notes)

\* C17: in every reachable state of the enhanced app at most one piano key is
\* active and at most one finger glyph is active in each hand diagram.
C17_OneHighlight ==
    Enhanced =>
        /\ Cardinality(activeKeys) <= 1
        /\ Cardinality(shownIndicators) <= 1
        /\ \A h \in {"left", "right"} :
              Cardinality({x \in activeFingers : x[1] = h}) <= 1

\* the right-hand note of the odd piece rendered after its left-hand notes
C17_Witness ==
    /\ Enhanced /\ notes = OddPiece /\ currentNoteIndex = 3
    /\ activeKeys = {64} /\ activeFingers = {<<"right", 3>>}

\* render(note): the three calls playNextNote makes for a note
Render(s, note) ==
    highlightFinger(highlightKey(displayCurrentNote(s, note), note), note)

AllNotes == UNION {{p[i] : i \in 1..Len(p)} : p \in Pieces}

\* C18: rendering is idempotent: from every reachable state, rendering a note
\* twice in a row leaves the same active keys, finger indicators, finger
\* glyphs and readout as rendering it once.
C18_RenderIdempotent ==
    Enhanced => \A n \in AllNotes : Render(Render(State, n), n) = Render(State, n)

\* a state that shows a rendered note: rendering it again is the second render
C18_Witness ==
    /\ Enhanced /\ readout \in AllNotes /\ activeKeys = {readout.midi}
    /\ activeFingers = {<<readout.hand, readout.finger>>}

\* C19: pause is idempotent: pausePlayback in an already paused state leaves
\* cursor, isPlaying, speed, sequence, highlights and timers unchanged, and
\* pause followed by pause equals a single pause.
C19_PauseIdempotent ==
    Enhanced =>
        /\ pausePlayback(pausePlayback(State)) = pausePlayback(State)
        /\ ~isPlaying => pausePlayback(State) = State

\* a state reached by a pause, in the middle of a piece
C19_Witness ==
    /\ Enhanced /\ lastOp = "pause" /\ ~isPlaying /\ playbackTimer = "set"
    /\ currentNoteIndex > 0

\* C20: in the enhanced app, after a failed load (network error or non-success
\* status) has completed the stored sequence is non-empty.
C20_FallbackOnFailure ==
    (Enhanced /\ lastOp = "loadFail") => Len(notes) > 0

Legacy == app = "legacy"

\* C21: in every reachable state of the enhanced app isPlaying implies a
\* non-empty sequence, also when a load completes during playback.
C21_NeverPlayingDataless == (Enhanced /\ isPlaying) => Len(notes) > 0

\* the policy table: residue of the MIDI number modulo 12 -> finger
FingerTable ==
    [r \in 0..11 |->
        CASE r \in {0, 1} -> 1
          [] r \in {2, 3} -> 2
          [] r \in {4, 5} -> 3
          [] r \in {6, 7} -> 4
          [] r \in 8..11 -> 5]

Rendering == {"play", "timerAdvance", "staleAdvance"}

\* C23: after a note has been rendered the hand diagram marks a finger active
\* for it: the note's own finger, or assignFingerToNote(note) when the note
\* arrived without one.
C23_MissingFingerRecovered ==
    lastOp \in Rendering =>
        \E x \in activeFingers :
            x[2] = (IF readout.finger # 0 THEN readout.finger
                    ELSE assignFingerToNote(readout))

\* C24: in the legacy app at most one scheduled advance is outstanding in
\* every reachable state.
C24_LegacyOneAdvance == Legacy => Len(timers) <= 1

TimerOps == {"timerAdvance", "timerEnd", "staleAdvance", "staleEnd"}

\* C25: in the legacy app the cursor is 0 and isPlaying is false after
\* reset, and a timeout callback, the passing of time or a click on Load
\* that follows the reset leaves them so.
C25_ResetHolds ==
    [][Legacy =>
          /\ lastOp' = "reset" => (currentNoteIndex' = 0 /\ ~isPlaying')
          /\ (lastOp = "reset" /\ lastOp' \in TimerOps \cup {"tick", "loadClick"})
                => (currentNoteIndex' = 0 /\ ~isPlaying')]_vars

\* C26: in the enhanced app, after a permitted manual step the active key and
\* the active finger glyph are those of the note in the readout.
C26_StepHighlights ==
    (Enhanced /\ lastOp \in {"stepForward", "stepBack"}) =>
        /\ KeyExists(State, readout.midi) => activeKeys = {readout.midi}
        /\ readout.finger \in 1..5
              => activeFingers = {<<readout.hand, readout.finger>>}

C28_ResizeKeepsHighlight ==
    [][(Enhanced /\ lastOp' = "resize" /\ readout.midi \in activeKeys)
          => readout.midi \in activeKeys']_vars

\* C29: in the enhanced app no handler reads notes[index] with an index
\* outside [0, length): no step-back hands an undefined note to the display
\* code, and no handler that displays a note leaves the cursor beyond the end.
C29_ReadsInRange ==
    Enhanced =>
        /\ lastOp # "stepBackThrow"
        /\ lastOp \in Rendering \cup {"stepForward"} => currentNoteIndex <= Len(notes)

\* C30: in every state of the enhanced app isPlaying is true exactly when one
\* scheduled advance is outstanding, and otherwise none is.
C30_PlayingIffArmed ==
    Enhanced =>
        /\ isPlaying <=> Len(timers) = 1
        /\ ~isPlaying => timers = << >>

\* playing through a piece, the next advance pending
C30_Witness ==
    /\ Enhanced /\ isPlaying /\ lastOp = "timerAdvance" /\ Len(timers) = 1
    /\ timers[1].handle

\* the handlers that emit a note
Emits == {"play", "timerAdvance"}

\* toggles, tempo changes, timer firings and the passing of time that emit none
Quiet == {"pause", "playAtEnd", "playEmpty", "tempo", "timerEnd", "tick"}

\* C31: in the enhanced app, under play/pause toggles, tempo changes and timer
\* firings, every emission shows the note at the cursor and moves the cursor
\* one past it, and nothing else moves the cursor or changes the note shown:
\* the emitted indices go up by exactly one, from the cursor at the first play.
C31_EmitsInOrder ==
    [][Enhanced =>
          /\ lastOp' \in Emits =>
                /\ currentNoteIndex < Len(notes)
                /\ readout' = At(notes, currentNoteIndex)
                /\ currentNoteIndex' = currentNoteIndex + 1
                /\ notes' = notes
          /\ lastOp' \in Quiet => UNCHANGED <<currentNoteIndex, readout, notes>>]_vars

\* playback resumed at the third note after a pause and a change to half speed
C31_Witness ==
    /\ Enhanced /\ lastOp = "play" /\ notes = SampleData /\ playbackSpeed = 50
    /\ currentNoteIndex = 3 /\ readout = SampleData[3] /\ progress.played = 2

\* C32: in the enhanced app, when loadMIDI ends by reporting an error (failed
\* request, non-OK status, or a response whose processing throws) the load
\* has changed neither the sequence nor the hand positions, the cursor or
\* isPlaying.
C32_FailedLoadChangesNothing ==
    [][(Enhanced /\ lastOp' \in {"loadFail", "loadThrow"})
          => /\ notification' = "Error loading MIDI file"
             /\ UNCHANGED <<notes, handPositions, currentNoteIndex, isPlaying>>]_vars

\* C33: in the enhanced app, when load requests overlap and all have been
\* answered successfully, the stored sequence is the one returned for the
\* request issued last, in whatever order the responses arrived.
C33_LatestRequestWins ==
    LET n == Len(loads)
    IN  (/\ Enhanced /\ n >= 2 /\ loads[n].overlapped
         /\ \A i \in 1..n : loads[i].done /\ loads[i].kind = "ok")
            => notes = loads[n].notes

====
